---- MODULE Spec2Model ----
(***************************************************************************)
(* A model of zietzm/clock (src/main.go): a command-line time tracker.     *)
(* Every invocation of the tool opens the sqlite table `records`, runs one *)
(* command (in, out, log, status) and exits.  The state is the table, the  *)
(* wall clock, and what the last invocation returned and printed.          *)
(***************************************************************************)
EXTENDS Integers, Sequences, FiniteSets, TLC

VARIABLES
    records,    \* the rows of table `records` (a set: SQL tables are unordered)
    now,        \* the wall clock, in ticks (TicksPerSecond ticks to a second)
    call,       \* the operation the last invocation ran, with its inputs
    err,        \* the error it returned or printed on stderr (nil: none)
    out,        \* the lines it printed on stdout
    exit,       \* the exit status of the process
    fault,      \* what the store fails at during the invocation, if anything
    procs       \* invocations of clockInOut under way side by side

vars == <<records, now, call, err, out, exit, fault, procs>>

----------------------------------------------------------------------------
(* Bounds of the model. *)

MaxRecords == 4         \* rows the table may hold
MaxTicks == 2           \* ticks the wall clock may advance past the start
TicksPerSecond == 2     \* resolution of the wall clock
StartSecond == 59       \* second of the hour at which the first run happens
MaxN == 2               \* largest explicit -n of the log command

----------------------------------------------------------------------------
(* Values. *)

clockInAction == "in"
clockOutAction == "out"
Actions == {clockInAction, clockOutAction}

\* Category labels a user types; "" is the empty string.
Labels == {"work", "personal", "default"}
Categories == Labels \cup {""}

\* Positional arguments of `in` / `out`: none, one, or two.
ArgLists ==
    {<<>>} \cup {<<c>> : c \in Categories} \cup {<<"work", "extra">>}

\* The argument lists tried where the category plays no part: on a failing
\* store and in two invocations at once.
SomeArgLists == {<<>>, <<"work">>}

nil == <<>>

\* A format string that lost its second verb: only the first argument is
\* formatted into the message.
Errorf_FirstArgOnly(text, args) ==
    <<text>> \o (IF args = <<>> THEN <<>> ELSE <<args[1]>>)

\* fmt.Errorf: the message as its literal text followed by the formatted
\* arguments, in order.
Errorf(text, args) == <<text>> \o args

\* strings.Contains on a message built by Errorf.
Contains(msg, part) == \E i \in DOMAIN msg : msg[i] = part

----------------------------------------------------------------------------
(* Time.  sqlite's datetime('now') yields text "YYYY-MM-DD HH:MM:SS"; the  *)
(* model keeps its minute and second fields (the others do not change      *)
(* within the bounds).  time.Parse reads the text back into seconds.       *)

FormatTime(sec) == <<sec \div 60, sec % 60>>

\* A layout that reads the seconds field only.
ParseTime_SecondsOnly(text) == text[2]

ParseTime(text) == text[1] * 60 + text[2]

\* datetime('now') at wall-clock tick t: truncated to the second.
DatetimeNow(t) == FormatTime(t \div TicksPerSecond)

\* Duration.Round(time.Second) of a non-negative duration in ticks, in
\* seconds: to the nearest second, halves away from zero.
RoundSecond(d) == (2 * d + TicksPerSecond) \div (2 * TicksPerSecond)

----------------------------------------------------------------------------
(* The table. *)

Ids(rows) == {r.id : r \in rows}

MaxId(rows) ==
    IF rows = {} THEN 0 ELSE CHOOSE m \in Ids(rows) : \A i \in Ids(rows) : i <= m

\* `order by id desc`
RECURSIVE OrderByIdDesc(_)
OrderByIdDesc(rows) ==
    IF rows = {} THEN <<>>
    ELSE LET top == CHOOSE r \in rows : \A q \in rows : q.id <= r.id
         IN  <<top>> \o OrderByIdDesc(rows \ {top})

Min(a, b) == IF a <= b THEN a ELSE b

\* `order by id asc`: the query with the wrong direction.
RECURSIVE OrderByIdAsc(_)
OrderByIdAsc(rows) ==
    IF rows = {} THEN <<>>
    ELSE LET low == CHOOSE r \in rows : \A q \in rows : r.id <= q.id
         IN  <<low>> \o OrderByIdAsc(rows \ {low})

readRowsOf_Ascending(rows, n) ==
    LET all == OrderByIdAsc(rows)
    IN  IF n < 0 THEN all ELSE SubSeq(all, 1, Min(n, Len(all)))

\* readRows(n): `select ... order by id desc limit n`.  sqlite puts no
\* upper bound on the result when the limit is negative.
readRowsOf(rows, n) ==
    LET all == OrderByIdDesc(rows)
    IN  IF n < 0 THEN all ELSE SubSeq(all, 1, Min(n, Len(all)))

readRows(n) == readRowsOf(records, n)

\* The error readRows(n) returns: main.go:81-83 when the query fails.
readRowsErr(n) ==
    IF fault' = "read"
    THEN Errorf("error getting last records", <<n, "store error">>)
    ELSE nil

\* The row writeRow inserts at tick t: id is sqlite's rowid (largest + 1),
\* time is datetime('now').
NewRow(rows, t, action, category) ==
    [id |-> MaxId(rows) + 1, time |-> DatetimeNow(t),
     action |-> action, category |-> category]

\* A store that rewrites the most recent row instead of appending one.
writeRow_UpdateLatest(action, category) ==
    /\ Cardinality(records) < MaxRecords
    /\ records' = {r \in records : r.id # MaxId(records)}
                    \cup {[NewRow(records, now', action, category)
                             EXCEPT !.id = IF records = {} THEN 1
                                           ELSE MaxId(records)]}
    /\ err' = nil

\* A writeRow that drops the insert's error: the row goes in regardless.
writeRow_ErrorDropped(action, category) ==
    /\ Cardinality(records) < MaxRecords
    /\ records' = records \cup {NewRow(records, now', action, category)}
    /\ err' = nil

\* writeRow(action, category): one insert; returns nil, or the error of a
\* failed insert (main.go:104-106), which leaves the table as it was.
writeRow(action, category) ==
    IF fault' = "write"
    THEN /\ err' = Errorf("error inserting record", <<"store error">>)
         /\ UNCHANGED records
    ELSE /\ Cardinality(records) < MaxRecords
         /\ records' = records \cup {NewRow(records, now', action, category)}
         /\ err' = nil

----------------------------------------------------------------------------
(* clockInOut *)

\* The check of line 124 with the wrong constant for the stored action.
AlreadyClockedIn_WrongState(action, state) ==
    (action = clockInAction) /\ (state.action = clockOutAction)

\* main.go:124
AlreadyClockedIn(action, state) ==
    (action = clockInAction) /\ (state.action = clockInAction)

\* The check of line 127 with the wrong constant for the requested action.
AlreadyClockedOut_WrongAction(action, state) ==
    (action = clockInAction) /\ (state.action = clockOutAction)

\* main.go:127
AlreadyClockedOut(action, state) ==
    (action = clockOutAction) /\ (state.action = clockOutAction)

\* main.go:130
ClosesOpenSession(action, state) ==
    (action = clockOutAction) /\ (state.action = clockInAction)

\* The check of line 131 with the comparison inverted.
DifferentCategory_Inverted(category, state) ==
    (category # "") /\ (state.category = category)

\* main.go:131
DifferentCategory(category, state) ==
    (category # "") /\ (state.category # category)

\* Lines 134-136 left out: the requested category is stored as given.
InheritCategory_Dropped(category, state) == category

\* main.go:134-136
InheritCategory(category, state) ==
    IF category = "" THEN state.category ELSE category

Fail(e) == err' = e /\ UNCHANGED records

\* The empty-table branch without its switch on the action.
clockInOutFirst_NoSwitch(action, category) == writeRow(action, category)

\* main.go:115-122, the branch taken on an empty table
clockInOutFirst(action, category) ==
    IF action = clockInAction
    THEN writeRow(action, category)
    ELSE Fail(Errorf("cannot clock out without clocking in first", <<>>))

\* main.go:123-138, the branch taken when a most recent row exists
clockInOutNext(state, action, category) ==
    IF AlreadyClockedIn(action, state)
    THEN Fail(Errorf("already clocked in", <<state.category, state.time>>))
    ELSE IF AlreadyClockedOut(action, state)
    THEN Fail(Errorf("already clocked out", <<state.category, state.time>>))
    ELSE IF ClosesOpenSession(action, state)
    THEN IF DifferentCategory(category, state)
         THEN Fail(Errorf("cannot clock out of a different category",
                          <<state.category>>))
         ELSE writeRow(action, InheritCategory(category, state))
    ELSE writeRow(action, category)

\* A clockInOut that queries the table again at the moment it decides, as
\* it would inside one transaction with its insert.
clockInOutDecide_ReadsAgain(states, action, category) ==
    IF Len(readRows(1)) = 0
    THEN clockInOutFirst(action, category)
    ELSE clockInOutNext(readRows(1)[1], action, category)

\* main.go:115-138: what clockInOut does with the rows it has read.
clockInOutDecide(states, action, category) ==
    IF Len(states) = 0
    THEN clockInOutFirst(action, category)
    ELSE clockInOutNext(states[1], action, category)

clockInOut(action, category) ==
    IF readRowsErr(1) # nil
    THEN Fail(readRowsErr(1))
    ELSE clockInOutDecide(readRows(1), action, category)

----------------------------------------------------------------------------
(* Commands. *)

\* A parseCategory whose default branch keeps the first argument.
parseCategory_FirstOfMany(args) ==
    IF Len(args) = 0 THEN "" ELSE args[1]

parseCategory(args) ==
    IF Len(args) = 0 THEN ""
    ELSE IF Len(args) = 1 THEN args[1]
    ELSE ""

\* An invocation happens d ticks after the previous one.
Invoke(d) ==
    /\ now + d <= StartSecond * TicksPerSecond + MaxTicks
    /\ now' = now + d

ExitOf(e) == IF e = nil THEN 0 ELSE 1

\* `clock in [category]` / `clock out [category]`: log.Fatal on an error.
ClockCmd(action, args) ==
    /\ call' = [op |-> "clockInOut", action |-> action,
                category |-> parseCategory(args), args |-> args]
    /\ clockInOut(action, parseCategory(args))
    /\ out' = <<>>
    /\ exit' = ExitOf(err')

\* The store works during the invocation, which runs on its own from start
\* to end.
Healthy == fault' = "none" /\ UNCHANGED procs

CmdIn == \E d \in {0, 1}, args \in ArgLists :
    Healthy /\ Invoke(d) /\ ClockCmd(clockInAction, args)

CmdOut == \E d \in {0, 1}, args \in ArgLists :
    Healthy /\ Invoke(d) /\ ClockCmd(clockOutAction, args)

\* printLog without its slices.Reverse.
Reverse_Missing(s) == s

\* slices.Reverse
RECURSIVE Reverse(_)
Reverse(s) == IF s = <<>> THEN <<>> ELSE Reverse(Tail(s)) \o <<Head(s)>>

\* One table line of printLog: "%d:\t%s\t%s\t%s\n"
LogLine(record) == <<record.id, record.action, record.category, record.time>>

\* printLog(n): the header, then the rows of readRows(n) oldest first.
printLog(n) ==
    LET rows == Reverse(readRows(n))
    IN  /\ IF readRowsErr(n) # nil
           THEN err' = readRowsErr(n) /\ out' = <<>>
           ELSE /\ out' = <<<<"ID", "Action", "Category", "Time">>>>
                          \o [i \in 1..Len(rows) |-> LogLine(rows[i])]
                /\ err' = nil
        /\ UNCHANGED records

\* The -n flag's default.
LogDefaultN == 10

\* `clock log [-n N]`
LogCmd(n) ==
    /\ call' = [op |-> "log", n |-> n]
    /\ printLog(n)
    /\ exit' = ExitOf(err')

CmdLog == \E d \in {0, 1}, n \in (-1..MaxN) \cup {LogDefaultN} :
    Healthy /\ Invoke(d) /\ LogCmd(n)

\* `clock status`: the most recent row and the time since it, rounded to
\* the second; log.Fatalln when there is no row.
StatusCmd ==
    /\ call' = [op |-> "status"]
    /\ LET rows == readRows(1)
       IN  IF readRowsErr(1) # nil
           THEN err' = readRowsErr(1) /\ out' = <<>>
           ELSE IF Len(rows) = 0
           THEN /\ err' = Errorf("No records found", <<>>)
                /\ out' = <<>>
           ELSE LET record == rows[1]
                    startTime == ParseTime(record.time)
                    elapsed == RoundSecond(now' - startTime * TicksPerSecond)
                IN  /\ out' = <<<<"Clock:", record.action, record.category,
                                  record.time, elapsed>>>>
                    /\ err' = nil
    /\ exit' = ExitOf(err')
    /\ UNCHANGED records

CmdStatus == \E d \in {0, 1} : Healthy /\ Invoke(d) /\ StatusCmd

\* printTimeElapsed(): the time between the two most recent rows.
printTimeElapsed ==
    LET rows == readRows(2)
    IN  /\ IF readRowsErr(2) # nil
           THEN err' = readRowsErr(2) /\ out' = <<>>
           ELSE IF Len(rows) < 2
           THEN /\ err' = Errorf("not enough records to calculate time elapsed",
                                 <<>>)
                /\ out' = <<>>
           ELSE LET startTime == ParseTime(rows[2].time)
                    endTime == ParseTime(rows[1].time)
                    elapsed == endTime - startTime
                IN  /\ out' = IF rows[1].action = clockInAction
                              THEN <<<<"Last clock in was from", startTime,
                                       endTime, elapsed>>>>
                              ELSE <<<<"Last clock out was", endTime, elapsed>>>>
                    /\ err' = nil
        /\ UNCHANGED records

ElapsedCmd ==
    /\ call' = [op |-> "printTimeElapsed"]
    /\ printTimeElapsed
    /\ exit' = ExitOf(err')

TimeElapsed == \E d \in {0, 1} : Healthy /\ Invoke(d) /\ ElapsedCmd

\* Two processes of the tool, run at the same time on the same database.
Procs == {1, 2}

\* A process before it starts and after it exits.
Idle == [pc |-> "idle", action |-> "", args |-> <<>>, states |-> <<>>,
         err |-> nil]

Init ==
    /\ records = {}
    /\ now = StartSecond * TicksPerSecond
    /\ call = [op |-> "none"]
    /\ err = nil
    /\ out = <<>>
    /\ exit = 0
    /\ fault = "none"
    /\ procs = [p \in Procs |-> Idle]

Next == CmdIn \/ CmdOut \/ CmdLog \/ CmdStatus \/ TimeElapsed

Spec == Init /\ [][Next]_vars

\* An invocation during which the store fails its query or its insert.
StoreFault == \E d \in {0, 1} :
    /\ Invoke(d)
    /\ UNCHANGED procs
    /\ \/ \E f \in {"read", "write"}, action \in Actions, args \in SomeArgLists :
             fault' = f /\ ClockCmd(action, args)
       \/ /\ fault' = "read"
          /\ \/ LogCmd(LogDefaultN)
             \/ StatusCmd
             \/ ElapsedCmd

NextFault == Next \/ StoreFault

\* The program on a store that may fail.
SpecFault == Init /\ [][NextFault]_vars

----------------------------------------------------------------------------
(* Vocabulary of the properties. *)

\* The events in id order, oldest first.
RECURSIVE AscendingById(_)
AscendingById(rows) ==
    IF rows = {} THEN <<>>
    ELSE LET lo == CHOOSE r \in rows : \A q \in rows : r.id <= q.id
         IN  <<lo>> \o AscendingById(rows \ {lo})

History == AscendingById(records)

\* The most recent event (meaningful when records # {}).
MostRecent == CHOOSE r \in records : \A q \in records : q.id <= r.id

LastIs(action) == records # {} /\ MostRecent.action = action

\* The last invocation was clockInOut(action, _).
Requested(action) == call.op = "clockInOut" /\ call.action = action

\* The step appends exactly one event, of the given action and category,
\* and leaves every other event as it was.
Appends(action, category) ==
    /\ records \subseteq records'
    /\ \E r \in records' \ records :
          /\ records' = records \cup {r}
          /\ r.action = action
          /\ r.category = category

AppendsOne(action) == \E c \in Categories : Appends(action, c)

----------------------------------------------------------------------------
(* Properties. *)

\* C1: whenever the most recent event is a clock-in, clockInOut(in, c) fails
\* with an error containing "already clocked in", whatever c is, and the
\* table is unchanged.
C1_ClockInTwiceFails ==
    [][(LastIs(clockInAction) /\ Requested(clockInAction)')
        => /\ Contains(err', "already clocked in")
           /\ records' = records]_vars

\* C1 witness: a clock-in naming another category than the open one was
\* rejected with "already clocked in".
C1_Witness ==
    /\ Requested(clockInAction)
    /\ LastIs(clockInAction)
    /\ call.category \notin {"", MostRecent.category}
    /\ Contains(err, "already clocked in")

\* C2: whenever the most recent event is a clock-out, clockInOut(out, c)
\* fails with an error containing "already clocked out", whatever c is, and
\* the table is unchanged.
C2_ClockOutTwiceFails ==
    [][(LastIs(clockOutAction) /\ Requested(clockOutAction)')
        => /\ Contains(err', "already clocked out")
           /\ records' = records]_vars

\* C2 witness: after `in work`, `out`, a second `out` was rejected.
C2_Witness ==
    /\ Requested(clockOutAction)
    /\ call.category = ""
    /\ Len(History) = 2
    /\ History[1].action = clockInAction /\ History[1].category = "work"
    /\ History[2].action = clockOutAction
    /\ Contains(err, "already clocked out")

\* The category a clock-in is to record for the requested one.
GivenOrDefault(category) == IF category = "" THEN "default" ELSE category

\* C3: on an empty table clockInOut(in, c) succeeds and appends exactly one
\* clock-in event whose category is c, or "default" when c is empty.
C3_FirstClockInRecordsGivenOrDefault ==
    [][(records = {} /\ Requested(clockInAction)')
        => /\ err' = nil
           /\ Appends(clockInAction, GivenOrDefault(call'.category))]_vars

\* C4: no stored event has an empty category.
C4_NoEmptyCategoryStored == \A r \in records : r.category # ""

\* C5: when the most recent event is a clock-in with category c,
\* clockInOut(out, "") succeeds and appends exactly one clock-out event
\* whose category is c.
C5_ClockOutInheritsCategory ==
    [][(LastIs(clockInAction) /\ Requested(clockOutAction)'
            /\ call'.category = "")
        => /\ err' = nil
           /\ Appends(clockOutAction, MostRecent.category)]_vars

\* C5 witness: `in work` then `out` recorded a clock-out in "work".
C5_Witness ==
    /\ Requested(clockOutAction)
    /\ call.category = ""
    /\ err = nil
    /\ Len(History) >= 2
    /\ History[Len(History) - 1].action = clockInAction
    /\ History[Len(History) - 1].category = "work"
    /\ History[Len(History)].action = clockOutAction
    /\ History[Len(History)].category = "work"

\* C6: when the most recent event is a clock-in with category c,
\* clockInOut(out, d) with d non-empty and different from c fails with an
\* error containing "cannot clock out of a different category" that names
\* c, and the table is unchanged.
C6_ClockOutOtherCategoryFails ==
    [][(LastIs(clockInAction) /\ Requested(clockOutAction)'
            /\ call'.category \notin {"", MostRecent.category})
        => /\ Contains(err', "cannot clock out of a different category")
           /\ err'[Len(err')] = MostRecent.category
           /\ records' = records
           /\ LastIs(clockInAction)']_vars

\* C6 witness: `in work` then `out personal` was rejected, naming "work".
C6_Witness ==
    /\ Requested(clockOutAction)
    /\ call.category = "personal"
    /\ LastIs(clockInAction)
    /\ MostRecent.category = "work"
    /\ Contains(err, "cannot clock out of a different category")
    /\ Contains(err, "work")

\* C7: on an empty table clockInOut(out, c) fails with "cannot clock out
\* without clocking in first", whatever c is, and the table stays empty.
C7_FirstClockOutFails ==
    [][(records = {} /\ Requested(clockOutAction)')
        => /\ err' = <<"cannot clock out without clocking in first">>
           /\ records' = {}]_vars

\* C7 witness: `out work` on an empty table was rejected.
C7_Witness ==
    /\ Requested(clockOutAction)
    /\ call.category = "work"
    /\ records = {}
    /\ err = <<"cannot clock out without clocking in first">>

\* C8: when the most recent event is a clock-out, clockInOut(in, c)
\* succeeds whatever c is and appends exactly one clock-in event.
C8_ClockInAfterClockOutSucceeds ==
    [][(LastIs(clockOutAction) /\ Requested(clockInAction)')
        => /\ err' = nil
           /\ AppendsOne(clockInAction)]_vars

\* C8 witness: a session closed in one category is followed by an accepted
\* clock-in that names another.
C8_Witness ==
    /\ Requested(clockInAction)
    /\ err = nil
    /\ Len(History) >= 2
    /\ History[Len(History) - 1].action = clockOutAction
    /\ History[Len(History)].action = clockInAction
    /\ call.category \notin {"", History[Len(History) - 1].category}

\* The last invocation was an accepted clock-in with no category requested.
OpenedWithoutCategory ==
    Requested(clockInAction) /\ call.category = "" /\ err = nil

\* C9: right after a clock-in accepted with an empty requested category, a
\* clock-out naming "default" is accepted and records "default", and a
\* clock-out fails only when it names a category other than the stored one.
C9_DefaultSessionClosesAsDefault ==
    [][(OpenedWithoutCategory /\ Requested(clockOutAction)')
        => /\ (call'.category = "default"
                 => err' = nil /\ Appends(clockOutAction, "default"))
           /\ (err' # nil
                 => call'.category \notin {"", MostRecent.category})]_vars

\* An accepted clockInOut step.
Accepted == call.op = "clockInOut" /\ err = nil

\* C10: every operation leaves the events in id order as a prefix of what
\* they are afterwards (each with its id, time, action and category); an
\* accepted clockInOut adds exactly one event and every other operation
\* none.  (History has one entry per row, so its length is the row count.)
C10_AppendOnly ==
    [][/\ Cardinality(records) <= Cardinality(records')
       /\ SubSeq(History', 1, Cardinality(records)) = History
       /\ Cardinality(records')
             = Cardinality(records) + (IF Accepted' THEN 1 ELSE 0)]_vars

\* C10 witness: an accepted clockInOut on a table that already held two
\* events.
C10_Witness == Accepted /\ Len(History) = 3

\* The counts the log command passes to readRows that are not negative.
Counts == (0..MaxN) \cup {LogDefaultN}

\* C11: for every table the program reaches and every count n >= 0,
\* readRows(n) returns min(n, total) events, they are the events with the
\* greatest ids, and their ids strictly descend (on an empty table: the
\* empty sequence).
C11_ReadRowsMostRecentDescending ==
    \A n \in Counts :
        LET rows == readRows(n)
            total == Cardinality(records)
        IN  /\ Len(rows) = (IF n <= total THEN n ELSE total)
            /\ \A i \in 1..Len(rows) : rows[i] \in records
            /\ \A i \in 1..(Len(rows) - 1) : rows[i].id > rows[i + 1].id
            /\ \A r \in records :
                  (\E i \in 1..Len(rows) : rows[i] = r)
                  \/ (\A i \in 1..Len(rows) : r.id < rows[i].id)

\* C11 witness: the log command read 2 rows of a table that holds 3.
C11_Witness ==
    call.op = "log" /\ call.n = 2 /\ Cardinality(records) = 3 /\ Len(out) = 3

----------------------------------------------------------------------------
(* Two invocations of `in` / `out` at once.  Nothing in clockInOut ties its *)
(* query (main.go:111) to its insert (main.go:118, 138): no transaction, no *)
(* lock.  Each process therefore takes two steps, and the other may run    *)
(* between them.                                                           *)

\* Process p starts `clock <action> <args>` and runs readRows(1).
RaceRead(p) == \E action \in Actions, args \in SomeArgLists :
    /\ procs[p].pc = "idle"
    /\ procs' = [procs EXCEPT ![p] = [pc |-> "read", action |-> action,
                                      args |-> args, states |-> readRows(1),
                                      err |-> nil]]
    /\ UNCHANGED <<records, now, call, err, out, exit, fault>>

\* Process p decides on the rows it read and, on a legal transition,
\* inserts its row; then its command returns.  The race is over within one
\* tick of the wall clock.
RaceWrite(p) ==
    /\ procs[p].pc = "read"
    /\ fault' = "none"
    /\ Invoke(0)
    /\ call' = [op |-> "clockInOut", action |-> procs[p].action,
                category |-> parseCategory(procs[p].args),
                args |-> procs[p].args]
    /\ clockInOutDecide(procs[p].states, procs[p].action,
                        parseCategory(procs[p].args))
    /\ out' = <<>>
    /\ exit' = ExitOf(err')
    /\ procs' = [procs EXCEPT ![p].pc = "done", ![p].err = err']

\* Process p exits.
RaceExit(p) ==
    /\ procs[p].pc = "done"
    /\ procs' = [procs EXCEPT ![p] = Idle]
    /\ UNCHANGED <<records, now, call, err, out, exit, fault>>

NextRace == \E p \in Procs : RaceRead(p) \/ RaceWrite(p) \/ RaceExit(p)

\* The program run as two processes at a time.
SpecRace == Init /\ [][NextRace]_vars

\* The transitions clockInOut accepts: a clock-in on an empty table or after
\* a clock-out, a clock-out of the open category or of none.
Legal(action, category) ==
    IF records = {} THEN action = clockInAction
    ELSE IF MostRecent.action = clockOutAction THEN action = clockInAction
    ELSE action = clockOutAction /\ category \in {"", MostRecent.category}

\* C16: when readRows(1) fails inside clockInOut, clockInOut returns that
\* error and writes nothing; when writeRow fails, clockInOut returns that
\* error; either way the table is what it was before the call.
C16_StoreErrorsPropagateWithoutWrite ==
    [][(call'.op = "clockInOut" /\ fault' # "none")
        => /\ records' = records
           /\ exit' = 1
           /\ fault' = "read"
                => err' = <<"error getting last records", 1, "store error">>
           /\ (fault' = "write" /\ Legal(call'.action, call'.category))
                => err' = <<"error inserting record", "store error">>]_vars

\* C16 witness: an insert failed during a clock-out that closes an open
\* session, and clockInOut returned the insert's error.
C16_Witness ==
    /\ Requested(clockOutAction)
    /\ fault = "write"
    /\ LastIs(clockInAction)
    /\ err = <<"error inserting record", "store error">>

\* C13: parseCategory yields the empty category for no argument, the
\* argument for exactly one, and the empty category for two or more; so an
\* `in` or `out` given two or more arguments does exactly what the same
\* command does given none.
C13_ParseCategory ==
    [][call'.op = "clockInOut"
        => /\ Len(call'.args) = 0 => call'.category = ""
           /\ Len(call'.args) = 1 => call'.category = call'.args[1]
           /\ Len(call'.args) >= 2
                => /\ call'.category = ""
                   /\ clockInOut(call'.action, parseCategory(<<>>))
                   /\ out' = <<>>
                   /\ exit' = ExitOf(err')]_vars

\* C13 witness: `clock in work extra` was accepted and stored no category.
C13_Witness ==
    /\ Requested(clockInAction)
    /\ call.args = <<"work", "extra">>
    /\ err = nil
    /\ MostRecent.category = ""

\* C14: status fails with "No records found" and a non-zero exit exactly
\* when the table is empty; otherwise it reports the action, category and
\* timestamp of the event with the greatest id (an open session exactly
\* when that event is a clock-in); it never changes the table.
C14_StatusReportsMostRecent ==
    [][call'.op = "status"
        => /\ records' = records
           /\ (err' = <<"No records found">>) <=> (records = {})
           /\ (exit' # 0) <=> (records = {})
           /\ records = {} => out' = <<>>
           /\ records # {}
                => /\ Len(out') = 1
                   /\ out'[1][2] = MostRecent.action
                   /\ out'[1][3] = MostRecent.category
                   /\ out'[1][4] = MostRecent.time
                   /\ (out'[1][2] = clockInAction)
                        <=> (History[Len(History)].action = clockInAction)]_vars

\* C14 witness: status reported an open session in "work" that follows an
\* earlier, closed session.
C14_Witness ==
    /\ call.op = "status"
    /\ err = nil
    /\ Len(out) = 1
    /\ out[1][2] = clockInAction
    /\ out[1][3] = "work"
    /\ Cardinality(records) = 3

\* C14 on an empty table: status failed with "No records found".
C14_WitnessEmpty ==
    call.op = "status" /\ records = {} /\ err = <<"No records found">> /\ exit = 1

\* A clockInOut step that was rejected although a prior event exists and
\* the store worked: an invalid transition.
InvalidTransitionStep ==
    call'.op = "clockInOut" /\ records # {} /\ fault' = "none" /\ err' # nil

\* C15 as claimed: every invalid-transition error raised while a prior
\* event exists embeds the category and the timestamp of the most recent
\* event.
C15_EveryErrorEmbedsCategoryAndTime ==
    [][InvalidTransitionStep
        => /\ Len(err') = 3
           /\ err'[2] = MostRecent.category
           /\ err'[3] = MostRecent.time]_vars

\* C15 as amended: "already clocked in" and "already clocked out" embed the
\* category and the timestamp of the most recent event; "cannot clock out
\* of a different category" embeds its category only.
C15_ErrorsEmbedPriorState ==
    [][InvalidTransitionStep
        => \/ /\ err'[1] \in {"already clocked in", "already clocked out"}
              /\ err' = <<err'[1], MostRecent.category, MostRecent.time>>
           \/ err' = <<"cannot clock out of a different category",
                       MostRecent.category>>]_vars

\* C15 witness: a second clock-in was rejected with the open category and
\* its timestamp in the message.
C15_Witness ==
    /\ Requested(clockInAction)
    /\ LastIs(clockInAction)
    /\ err = <<"already clocked in", MostRecent.category, MostRecent.time>>
    /\ MostRecent.category = "personal"

\* C17: the log listing for a count N >= 0 prints, after its header, the
\* min(N, total) most recent events in strictly ascending id order (the
\* reverse of readRows(N)), each once and none left out; the count is 10
\* when no -n is given.
C17_LogListsMostRecentAscending ==
    [][(call'.op = "log" /\ call'.n >= 0)
        => LET total == Cardinality(records)
               shown == IF call'.n <= total THEN call'.n ELSE total
               lines == Tail(out')
           IN  /\ LogDefaultN = 10
               /\ err' = nil
               /\ Head(out') = <<"ID", "Action", "Category", "Time">>
               /\ Len(lines) = shown
               /\ \A i \in 1..shown :
                     /\ lines[i] = LogLine(History[total - shown + i])
                     /\ lines[i] = LogLine(readRows(call'.n)[shown + 1 - i])
               /\ \A i \in 1..(shown - 1) : lines[i][1] < lines[i + 1][1]]_vars

\* C17 witness: `clock log -n 2` on a table of three events listed the
\* events with ids 2 and 3, in that order.
C17_Witness ==
    /\ call.op = "log"
    /\ call.n = 2
    /\ Cardinality(records) = 3
    /\ Len(out) = 3
    /\ out[2][1] = 2
    /\ out[3][1] = 3

\* The ticks of the wall clock within the bounds, and the second a
\* timestamp text stands for.
Ticks == (StartSecond * TicksPerSecond)..(StartSecond * TicksPerSecond + MaxTicks)

SecondOf(text) ==
    CHOOSE sec \in {t \div TicksPerSecond : t \in Ticks} : FormatTime(sec) = text

\* C18: printTimeElapsed fails with its not-enough-records error exactly
\* when the table holds fewer than two events; otherwise it computes the
\* timestamp of the most recent event minus that of the one before it, which
\* is at least 1 second whenever the two were appended at least a second
\* apart (at any two instants that give them their timestamps), and it
\* prints the "from X to Y" form after a clock-in, the "ago" form after a
\* clock-out.
C18_TimeElapsedBetweenLastTwo ==
    [][call'.op = "printTimeElapsed"
        => /\ (err' = <<"not enough records to calculate time elapsed">>)
                <=> (Cardinality(records) < 2)
           /\ Cardinality(records) >= 2
                => LET last == MostRecent
                       prev == CHOOSE r \in records : r.id = MaxId(records \ {last})
                       line == out'[1]
                       elapsed == line[Len(line)]
                   IN  /\ err' = nil
                       /\ Len(out') = 1
                       /\ elapsed = SecondOf(last.time) - SecondOf(prev.time)
                       /\ \A t1, t2 \in Ticks :
                             (/\ DatetimeNow(t1) = prev.time
                              /\ DatetimeNow(t2) = last.time
                              /\ t2 - t1 >= TicksPerSecond) => elapsed >= 1
                       /\ last.action = clockInAction
                            => line = <<"Last clock in was from",
                                        SecondOf(prev.time), SecondOf(last.time),
                                        elapsed>>
                       /\ last.action = clockOutAction
                            => line = <<"Last clock out was",
                                        SecondOf(last.time), elapsed>>]_vars

\* C18 witness: a session opened in the last second of a minute and closed
\* in the first of the next is reported as ended 1 second after it began.
C18_Witness ==
    /\ call.op = "printTimeElapsed"
    /\ err = nil
    /\ out = <<<<"Last clock out was", 60, 1>>>>

\* The number of events of an action.
CountOf(action) == Cardinality({r \in records : r.action = action})

\* C19: when invocations do not interleave, the events in id order
\* alternate strictly between clock-in and clock-out, starting with a
\* clock-in; so there is one more clock-in than clock-outs when the last
\* event is a clock-in, and as many otherwise.
C19_EventsAlternate ==
    LET h == History
    IN  /\ \A i \in 1..Len(h) :
              h[i].action = (IF i % 2 = 1 THEN clockInAction ELSE clockOutAction)
        /\ \A i \in 1..(Len(h) - 1) : h[i].action # h[i + 1].action
        /\ CountOf(clockInAction) - CountOf(clockOutAction)
              = (IF LastIs(clockInAction) THEN 1 ELSE 0)

\* C19 witness: a clock-in, its clock-out, and a second clock-in.
C19_Witness ==
    /\ Len(History) = 3
    /\ Requested(clockInAction)
    /\ err = nil
    /\ CountOf(clockInAction) = 2

\* C20: when invocations do not interleave, every clock-out event carries
\* the category of the clock-in event just before it in id order, whatever
\* categories were requested.
C20_ClockOutKeepsCategory ==
    LET h == History
    IN  \A i \in 1..Len(h) :
            h[i].action = clockOutAction
                => /\ i > 1
                   /\ h[i - 1].action = clockInAction
                   /\ h[i - 1].category = h[i].category

\* C20 witness: a session opened in "personal" was closed by a clock-out
\* that named "personal".
C20_Witness ==
    /\ Requested(clockOutAction)
    /\ call.category = "personal"
    /\ err = nil
    /\ Len(History) = 2
    /\ History[1].category = "personal"
    /\ History[2].category = "personal"

\* Both processes ran a clock-in to its end, and each had read the table
\* before the other wrote: they read the same most recent row, or both
\* read an empty table.
RacedClockIns ==
    /\ \A p \in Procs : procs[p].pc = "done" /\ procs[p].action = clockInAction
    /\ procs[1].states = procs[2].states
    /\ procs[1].states # <<>> => procs[1].states[1].action = clockOutAction

\* C12: when two clock-ins run at once on a table that is empty or ends in
\* a clock-out, and both read before either writes, both succeed and the
\* table ends with two clock-in events in a row.
C12_RaceDoublesClockIn ==
    RacedClockIns
        => /\ \A p \in Procs : procs[p].err = nil
           /\ Len(History) >= 2
           /\ History[Len(History)].action = clockInAction
           /\ History[Len(History) - 1].action = clockInAction
           /\ Len(History) = 2 + (IF procs[1].states = <<>> THEN 0
                                  ELSE procs[1].states[1].id)

\* C12 witness: the double clock-in after a closed session is reached.
C12_Witness ==
    /\ RacedClockIns
    /\ procs[1].states # <<>>
    /\ \A p \in Procs : procs[p].err = nil
    /\ CountOf(clockInAction) = 2 + CountOf(clockOutAction)

====
